---------------------------- MODULE Spec2Model ----------------------------
(***************************************************************************)
(* Model of hats.go, the brute-force verifier for the n-hats puzzle.       *)
(*                                                                         *)
(* A hat colour is an int in 0..n-1.  A guess is a pure function from a    *)
(* vector of n ints to an int; a strategy is a list of guesses.  Vectors   *)
(* and strategies are functions over 0..len-1, keeping Go's indices.       *)
(***************************************************************************)
EXTENDS Integers, Sequences, FiniteSets, TLC

VARIABLES
    n,          \* the n passed to try / generateStrategy / mod
    strategy,   \* the []guess passed to try
    cur,        \* try's counter: the assignment being checked
    pc,         \* position of the running call
    result,     \* try's return value (meaningful when pc = "done")
    out,        \* rows written by printRow, in order
    count,      \* number of checkRow calls made so far (instrumentation)
    x,          \* mod's first argument
    v,          \* the vector a guess function is called with
    who,        \* index of the guess function being called
    ret         \* value returned by the pure function under test

vars == <<n, strategy, cur, pc, result, out, count, x, v, who, ret>>

----------------------------------------------------------------------------
(* Bounds of the model *)

\* largest n whose strategies are drawn from the parametric family
MaxN == 3
\* largest n (besides the headline size) for which the generator is run
MaxGenN == 4
\* mod is applied to x in -MaxX..MaxX
MaxX == 12
\* mod is applied with n in 1..MaxMod
MaxMod == 5

\* the size main verifies last: s7 := generateStrategy(7)
HeadlineN == 7

\* sizes at which every guess table over the views try can produce is drawn
TableSizes == {1, 2}

----------------------------------------------------------------------------
(* Arithmetic *)

\* Go's % on ints: the remainder of truncated division (sign of the dividend)
GoRem(a, m) == IF a >= 0 THEN a % m ELSE -((-a) % m)

\* variant: the bare remainder, without the shift into [0, n)
mod_bare(a, m) == GoRem(a, m)

\* func mod(x int, n int) int { return ((x % n) + n) % n }
mod(a, m) == GoRem(GoRem(a, m) + m, m)

----------------------------------------------------------------------------
(* Guess functions.  A guess is a record naming the closure and what it    *)
(* captured; Apply runs the closure's body on a vector.                    *)

\* g[0]'s body: res := 0; for i := 1; i < n; i++ { res += v[i] }
RECURSIVE SumFrom(_, _, _, _)
SumFrom(u, i, m, res) ==
    IF i < m THEN SumFrom(u, i + 1, m, res + u[i]) ELSE res

\* g[i]'s loop: for j := 1; j < n; j++ { if j == i { continue }; res -= v[j] }
RECURSIVE SubFrom(_, _, _, _, _)
SubFrom(u, j, m, i, res) ==
    IF j < m
    THEN SubFrom(u, j + 1, m, i, IF j = i THEN res ELSE res - u[j])
    ELSE res

\* the closure assigned to g[0]
Guess0(u, m) == mod(SumFrom(u, 1, m, 0), m)

\* the closure assigned to g[i], 1 <= i < n, with its captured i
GuessI(u, m, i) == mod(SubFrom(u, 1, m, i, u[0]) + i, m)

\* calling a guess on the vector u
Apply(g, u) ==
    CASE g.kind = "gen"   -> IF g.i = 0 THEN Guess0(u, g.n) ELSE GuessI(u, g.n, g.i)
      [] g.kind = "const" -> g.c
      [] g.kind = "pos"   -> u[g.p]
      [] g.kind = "table" -> g.tab[u]

\* variant: every closure of the loop shares one i, which is n once the loop ends
generateStrategy_shared(m) ==
    [i \in 0..(m - 1) |-> [kind |-> "gen", i |-> IF i = 0 THEN 0 ELSE m, n |-> m]]

\* func generateStrategy(n int) []guess
generateStrategy(m) ==
    [i \in 0..(m - 1) |-> [kind |-> "gen", i |-> i, n |-> m]]

----------------------------------------------------------------------------
(* The verifier *)

\* variant: the view keeps the participant's own colour
prune_keep(u, i, m) == [j \in 0..(m - 1) |-> u[j]]

\* func prune(v []int, i int, n int) []int
prune(u, i, m) == [j \in 0..(m - 1) |-> IF j = i THEN -1 ELSE u[j]]

\* checkRow's loop from index i on: "true", "false", or "panic" when
\* strategy[i] is indexed past the end of the slice
RECURSIVE checkRowFrom(_, _, _, _)
checkRowFrom(actual, strat, m, i) ==
    IF i >= m THEN "false"
    ELSE IF i \notin DOMAIN strat THEN "panic"
    ELSE IF actual[i] = Apply(strat[i], prune(actual, i, m)) THEN "true"
    ELSE checkRowFrom(actual, strat, m, i + 1)

\* variant: the loop starts at participant 1
checkRow_skip0(actual, strat, m) == checkRowFrom(actual, strat, m, 1)

\* func checkRow(actual []int, strategy []guess, n int) bool
checkRow(actual, strat, m) == checkRowFrom(actual, strat, m, 0)

\* func printRow(actual []int, strategy []guess, n int): the row it writes
printRow(actual, strat, m) ==
    [actual  |-> [i \in 0..(m - 1) |-> actual[i]],
     guesses |-> [i \in 0..(m - 1) |-> Apply(strat[i], actual)]]

\* next's loop from index i down: the counter after the call and what it returns
RECURSIVE nextFrom(_, _, _)
nextFrom(c, m, i) ==
    IF i < 0 THEN [cur |-> c, more |-> FALSE]
    ELSE LET c1 == [c EXCEPT ![i] = (c[i] + 1) % m]
         IN  IF c1[i] > 0 THEN [cur |-> c1, more |-> TRUE]
             ELSE nextFrom(c1, m, i - 1)

\* variant: the first position changes fastest
RECURSIVE nextUp(_, _, _)
nextUp(c, m, i) ==
    IF i >= m THEN [cur |-> c, more |-> FALSE]
    ELSE LET c1 == [c EXCEPT ![i] = (c[i] + 1) % m]
         IN  IF c1[i] > 0 THEN [cur |-> c1, more |-> TRUE]
             ELSE nextUp(c1, m, i + 1)

\* variant of next
next_little(c, m) == nextUp(c, m, 0)

\* variant of next: the increment never carries into the position before
next_nocarry(c, m) ==
    LET c1 == [c EXCEPT ![m - 1] = (c[m - 1] + 1) % m]
    IN  [cur |-> c1, more |-> c1[m - 1] > 0]

\* next := func() bool { ... } in try
next(c, m) == nextFrom(c, m, m - 1)

----------------------------------------------------------------------------
(* Inputs *)

\* the guesses of the parametric family at size m: the generator's closures,
\* constants (in and out of range) and reads of one position
FamilyGuesses(m) ==
    {[kind |-> "gen", i |-> i, n |-> m] : i \in 0..(m - 1)}
    \cup {[kind |-> "const", c |-> c] : c \in {-1, 0, m}}
    \cup {[kind |-> "pos", p |-> p] : p \in 0..(m - 1)}

\* strategies over the family, of every length up to m
FamilyStrategies(m) ==
    UNION {[0..(len - 1) -> FamilyGuesses(m)] : len \in 0..m}

\* the vectors participant i's guess can be called with by try: the others'
\* colours, and at i the sentinel (checkRow) or the colour (printRow)
ViewsOf(m, i) ==
    {u \in [0..(m - 1) -> -1..(m - 1)] : \A j \in 0..(m - 1) : j # i => u[j] >= 0}

\* every pure guess of participant i with results in range, as a table
TableGuesses(m, i) ==
    {[kind |-> "table", tab |-> t] : t \in [ViewsOf(m, i) -> 0..(m - 1)]}

\* every strategy of exactly m in-range pure guesses
TableStrategies(m) ==
    {s \in [0..(m - 1) -> UNION {TableGuesses(m, i) : i \in 0..(m - 1)}] :
        \A i \in 0..(m - 1) : s[i] \in TableGuesses(m, i)}

Empty == [i \in {} |-> 0]

----------------------------------------------------------------------------
(* try(strategy, n) *)

\* cur := make([]int, n)
TryEnter ==
    /\ pc = "call"
    /\ cur' = [i \in 0..(n - 1) |-> 0]
    /\ pc' = "loop"
    /\ UNCHANGED <<n, strategy, result, out, count, x, v, who, ret>>

\* one iteration of  for i := true; i; i = next() { if !checkRow ... }
TryIterate ==
    /\ pc = "loop"
    /\ count' = count + 1
    /\ LET ok == checkRow(cur, strategy, n) IN
         CASE ok = "panic" ->
                /\ pc' = "panic"
                /\ UNCHANGED <<cur, result, out>>
           [] ok = "false" ->
                /\ out' = Append(out, printRow(cur, strategy, n))
                /\ result' = FALSE
                /\ pc' = "done"
                /\ UNCHANGED cur
           [] ok = "true" ->
                LET nx == next(cur, n) IN
                /\ cur' = nx.cur
                /\ pc' = IF nx.more THEN "loop" ELSE "done"
                /\ result' = IF nx.more THEN result ELSE TRUE
                /\ UNCHANGED out
    /\ UNCHANGED <<n, strategy, x, v, who, ret>>

TryInit(m, s) ==
    /\ n = m
    /\ strategy = s
    /\ cur = Empty
    /\ pc = "call"
    /\ result = FALSE
    /\ out = <<>>
    /\ count = 0
    /\ x = 0
    /\ v = Empty
    /\ who = 0
    /\ ret = 0

\* try on any strategy of the family or any table strategy
Init ==
    \/ \E m \in 1..MaxN : \E s \in FamilyStrategies(m) : TryInit(m, s)
    \/ \E m \in TableSizes : \E s \in TableStrategies(m) : TryInit(m, s)

Next == TryEnter \/ TryIterate

Spec == Init /\ [][Next]_vars

\* try(generateStrategy(n), n), as main runs it
GenSizes == 1..MaxGenN \cup {HeadlineN}

InitGen == \E m \in GenSizes : TryInit(m, generateStrategy(m))

SpecGen == InitGen /\ [][Next]_vars

----------------------------------------------------------------------------
(* One guess of generateStrategy(n) called on an arbitrary vector *)

InitGuess ==
    /\ n \in 1..MaxGenN
    /\ strategy = generateStrategy(n)
    /\ v \in [0..(n - 1) -> -1..(n - 1)]
    /\ who \in 0..(n - 1)
    /\ pc = "call"
    /\ ret = 0
    /\ cur = Empty
    /\ result = FALSE
    /\ out = <<>>
    /\ count = 0
    /\ x = 0

CallGuess ==
    /\ pc = "call"
    /\ ret' = Apply(strategy[who], v)
    /\ pc' = "returned"
    /\ UNCHANGED <<n, strategy, cur, result, out, count, x, v, who>>

SpecGuess == InitGuess /\ [][CallGuess]_vars

----------------------------------------------------------------------------
(* mod(x, n) *)

InitMod ==
    /\ x \in -MaxX..MaxX
    /\ n \in 1..MaxMod
    /\ pc = "call"
    /\ ret = 0
    /\ strategy = Empty
    /\ cur = Empty
    /\ result = FALSE
    /\ out = <<>>
    /\ count = 0
    /\ v = Empty
    /\ who = 0

CallMod ==
    /\ pc = "call"
    /\ ret' = mod(x, n)
    /\ pc' = "returned"
    /\ UNCHANGED <<n, strategy, cur, result, out, count, x, v, who>>

SpecMod == InitMod /\ [][CallMod]_vars

----------------------------------------------------------------------------
(* Vocabulary of the properties, written independently of the code above *)

\* the strategy has exactly n guesses
FullLen == DOMAIN strategy = 0..(n - 1)

\* all assignments in [0,n)^n
Assignments == [0..(n - 1) -> 0..(n - 1)]

\* a with position i replaced by the sentinel
View(a, i) == [j \in DOMAIN a |-> IF j = i THEN -1 ELSE a[j]]

\* participant i guesses its own colour in a
Correct(a, i) == Apply(strategy[i], View(a, i)) = a[i]

\* some participant guesses its own colour in a
Wins(a) == \E i \in 0..(n - 1) : Correct(a, i)

\* a read as a big-endian base-n number, digits 0..k
RECURSIVE ValUpTo(_, _)
ValUpTo(a, k) == IF k < 0 THEN 0 ELSE ValUpTo(a, k - 1) * n + a[k]

Val(a) == ValUpTo(a, n - 1)

RECURSIVE Pow(_, _)
Pow(b, e) == IF e = 0 THEN 1 ELSE b * Pow(b, e - 1)

Zero == [i \in 0..(n - 1) |-> 0]

\* u[lo] + ... + u[hi]
RECURSIVE SumOver(_, _, _)
SumOver(u, lo, hi) == IF lo > hi THEN 0 ELSE SumOver(u, lo, hi - 1) + u[hi]

----------------------------------------------------------------------------
(* Properties of try on arbitrary strategies (Spec) *)

\* C1: for a strategy of exactly n guesses, try returns (it does not panic), and
\* it returns true if and only if every assignment in [0,n)^n has a participant
\* whose guess on its pruned view equals its colour; false in every other case.
C1_TryIffEveryAssignmentWins ==
    FullLen =>
        /\ pc # "panic"
        /\ pc = "done" => (result <=> \A a \in Assignments : Wins(a))

C1_Witness ==
    /\ pc = "done"
    /\ FullLen
    /\ n = 2
    /\ strategy[0].kind = "table"
    /\ result

\* C2: when the strategy wins on every assignment, the k-th check (from 0) is
\* made on the assignment whose big-endian base-n value is k: the enumeration
\* starts at all-zero, goes up by one each time, makes n^n checks, and ends
\* with the counter wrapped back to all-zero.
C2_EnumerationIsBigEndianCount ==
    (FullLen /\ \A a \in Assignments : Wins(a)) =>
        /\ pc = "call" => count = 0
        /\ pc = "loop" => /\ cur \in Assignments
                          /\ count = Val(cur)
                          /\ count < Pow(n, n)
        /\ pc = "done" => /\ count = Pow(n, n)
                          /\ cur = Zero
                          /\ result
        /\ pc \in {"call", "loop", "done"}

C2_Witness ==
    /\ pc = "done"
    /\ FullLen
    /\ n = 3
    /\ result
    /\ count = 27
    /\ cur = Zero

AllZero2 == n = 2 /\ strategy = [i \in 0..1 |-> [kind |-> "const", c |-> 0]]

\* C4: when some assignment has no correct guess, try returns false at the
\* first such assignment in enumeration order, reports that assignment and no
\* other, and checks nothing after it; the two-constant-0 strategy under n = 2
\* is checked on (0,0), (0,1), (1,0), (1,1) in that order and fails on (1,1).
C4_FailsAtFirstLosingAssignment ==
    /\ FullLen =>
        /\ pc \in {"call", "loop"} => out = <<>>
        /\ (pc = "done" /\ result) => out = <<>>
        /\ (pc = "done" /\ ~result) =>
              /\ Len(out) = 1
              /\ out[1].actual = cur
              /\ ~Wins(cur)
              /\ \A a \in Assignments : Val(a) < Val(cur) => Wins(a)
              /\ count = Val(cur) + 1
        /\ (\E a \in Assignments : ~Wins(a)) => ~(pc = "done" /\ result)
    /\ AllZero2 =>
        /\ pc = "loop" => count = Val(cur)
        /\ pc = "done" => /\ ~result
                          /\ count = 4
                          /\ Len(out) = 1
                          /\ out[1].actual = [i \in 0..1 |-> 1]

C4_Witness ==
    /\ AllZero2
    /\ pc = "done"
    /\ ~result
    /\ count = 4

\* C6: the row reported on failure shows the failing assignment and, for each
\* participant, the guess it made in the check, that is its guess on the
\* view with its own position replaced by the sentinel.
C6_DiagnosticShowsCheckedGuesses ==
    (FullLen /\ pc = "done" /\ ~result) =>
        /\ Len(out) = 1
        /\ out[1].actual = cur
        /\ out[1].guesses = [i \in 0..(n - 1) |-> Apply(strategy[i], View(cur, i))]

\* a strategy of fewer than n guesses, or with a guess outside [0,n)
Malformed ==
    \/ \E len \in 0..(n - 1) : DOMAIN strategy = 0..(len - 1)
    \/ /\ FullLen
       /\ \E i \in 0..(n - 1) : \E a \in Assignments :
             Apply(strategy[i], View(a, i)) \notin 0..(n - 1)

\* C7: on a malformed strategy try does not crash: it reports the failing
\* assignment with the guesses and returns false.
C7_MalformedNeverCrashes ==
    Malformed =>
        /\ pc # "panic"
        /\ pc = "done" => /\ ~result
                          /\ Len(out) = 1
                          /\ out[1].actual = cur

\* C8: for n = 1, try checks the single assignment (0) once and stops; it
\* returns true exactly when the guess returns 0 on the view (-1), which the
\* guess of generateStrategy(1) does.
C8_SizeOne ==
    (n = 1 /\ FullLen) =>
        /\ pc # "panic"
        /\ pc = "loop" => (count = 0 /\ cur = Zero)
        /\ pc = "done" =>
              /\ count = 1
              /\ cur = Zero
              /\ result <=> (Apply(strategy[0], [i \in {0} |-> -1]) = 0)
              /\ strategy = generateStrategy(1) => result

C8_Witness ==
    /\ n = 1
    /\ pc = "done"
    /\ strategy = generateStrategy(1)
    /\ result
    /\ count = 1

----------------------------------------------------------------------------
(* Properties of the generated strategy (SpecGen, SpecGuess) *)

\* C3: try(generateStrategy(n), n) returns true for n = 2, 3, 4 and 7; the
\* run never panics and makes at most n^n checks before it returns.
C3_GeneratedStrategyVerifies ==
    n \in {2, 3, 4, HeadlineN} =>
        /\ pc # "panic"
        /\ pc = "loop" => count < Pow(n, n)
        /\ pc = "done" => result

C3_Witness ==
    /\ n = 4
    /\ pc = "done"
    /\ result
    /\ count = 256

\* the closed forms of the generated guesses
Expected(i, u) ==
    IF i = 0
    THEN SumOver(u, 1, n - 1) % n
    ELSE (u[0] - SumOver(u, 1, i - 1) - SumOver(u, i + 1, n - 1) + i) % n

\* C9: generateStrategy(n) has exactly n guesses; guess 0 returns the sum of
\* v[1..n-1] reduced into [0,n); guess i >= 1 returns v[0] minus the sum of
\* v[j], j in 1..n-1, j # i, plus its own i, reduced into [0,n); and guess i
\* returns the same whatever position i of v holds.
C9_GeneratedGuessFormula ==
    pc = "returned" =>
        /\ DOMAIN strategy = 0..(n - 1)
        /\ ret \in 0..(n - 1)
        /\ ret = Expected(who, v)
        /\ \A c \in -1..(n - 1) :
              Apply(strategy[who], [v EXCEPT ![who] = c]) = ret

C9_Witness ==
    /\ pc = "returned"
    /\ n = 3
    /\ who = 1
    /\ v[who] = -1
    /\ v[0] = 0
    /\ v[2] = 2
    /\ ret = 2

\* C10: on every assignment exactly one participant of generateStrategy(n)
\* guesses correctly: with D = (a[0] - a[1] - ... - a[n-1]) mod n, participant
\* i is the correct one iff D = (n - i) mod n.
C10_ExactlyOneCorrect ==
    pc = "loop" =>
        LET D == (cur[0] - SumOver(cur, 1, n - 1)) % n
            right == {i \in 0..(n - 1) : Correct(cur, i)}
        IN  /\ right = {i \in 0..(n - 1) : D = (n - i) % n}
            /\ Cardinality(right) = 1

C10_Witness ==
    /\ pc = "loop"
    /\ n = 4
    /\ Correct(cur, 3)
    /\ cur[0] = 3

----------------------------------------------------------------------------
(* Property of mod (SpecMod) *)

\* C5: for x negative, zero or positive and n > 0, mod(x, n) is in [0,n), is
\* congruent to x modulo n, and equals mod(x + n, n).
C5_PositiveModulus ==
    pc = "returned" =>
        /\ ret \in 0..(n - 1)
        /\ \E q \in -(MaxX + 1)..(MaxX + 1) : x = q * n + ret
        /\ ret = mod(x + n, n)

C5_Witness ==
    /\ pc = "returned"
    /\ x < 0
    /\ n = 3
    /\ ret = 2

=============================================================================
